---- MODULE Spec2Model ----
(***************************************************************************)
(* Model of the ELECTRO-HMI dashboard (src/App.tsx, src/types.ts,          *)
(* src/services/geminiService.ts): the telemetry simulation stepped by a   *)
(* setInterval timer, the start/stop and target-load handlers, and the     *)
(* asynchronous diagnostics request.                                       *)
(*                                                                         *)
(* Number representation.  JavaScript numbers are modelled in fixed point: *)
(*   voltage, current, efficiency, frequency : units of 1/Scale            *)
(*   power                                   : units of 1/(Scale*Scale)    *)
(*   temperature                             : units of 1/TempScale        *)
(*   noise (Math.random() - 0.5)             : units of 1/NoiseScale       *)
(* NaN is a distinguished value that every arithmetic operation            *)
(* propagates and every comparison answers FALSE for.                      *)
(***************************************************************************)
EXTENDS Integers, Sequences, FiniteSets, TLC

\* ------------------------------------------------------------------------
\* Bounds of the model
\* ------------------------------------------------------------------------
\* number of time quanta the clock may advance
MaxQuanta == 4
\* number of diagnostics requests that may be issued
MaxRequests == 2
\* number of steps the simulateStep harness applies
MaxSteps == 4

\* ------------------------------------------------------------------------
\* Program constants (src/types.ts, constants section)
\* ------------------------------------------------------------------------
MAX_HISTORY_LENGTH == 60
UPDATE_INTERVAL_MS == 1000
NOMINAL_VOLTAGE == 240
NOMINAL_FREQUENCY == 60
THRESHOLDS ==
  [ voltage     |-> [min |-> 220, max |-> 260],
    current     |-> [warning |-> 15, critical |-> 25],
    temperature |-> [warning |-> 60, critical |-> 85],
    power       |-> [warning |-> 3600, critical |-> 6000] ]

\* ------------------------------------------------------------------------
\* Number representation
\* ------------------------------------------------------------------------
Scale == 100
TempScale == 1000000
NoiseScale == 10
PowerScale == Scale * Scale
NaN == 0 - 2147483647

\* the clock advances in half periods
TimeQuantum == UPDATE_INTERVAL_MS \div 2

\* Math.random() - 0.5 lies in [-0.5, 0.5): the draws the model takes
NoiseDraws == {0 - (NoiseScale \div 2), (NoiseScale \div 2) - 1}

isNaN(x) == x = NaN
\* JavaScript > : FALSE as soon as one operand is NaN
Gt(a, b) == ~isNaN(a) /\ ~isNaN(b) /\ a > b
\* Math.min written for Math.max
MathMin(a, b) == IF isNaN(a) \/ isNaN(b) THEN NaN ELSE IF a <= b THEN a ELSE b
\* the clamp left out
MathMaxUnclamped(a, b) == b
MathMax(a, b) == IF isNaN(a) \/ isNaN(b) THEN NaN ELSE IF a >= b THEN a ELSE b
MathAbs(a) == IF isNaN(a) THEN NaN ELSE IF a < 0 THEN 0 - a ELSE a
\* x / d rounded to the nearest representable value
RoundDiv(x, d) == (2 * x + d) \div (2 * d)

\* ------------------------------------------------------------------------
\* parseInt(e.target.value): the string is a sequence of characters
\* ------------------------------------------------------------------------
DigitChars == {"0", "1", "2", "3", "4", "5", "6", "7", "8", "9"}
DigitVal(c) ==
  CASE c = "0" -> 0 [] c = "1" -> 1 [] c = "2" -> 2 [] c = "3" -> 3
    [] c = "4" -> 4 [] c = "5" -> 5 [] c = "6" -> 6 [] c = "7" -> 7
    [] c = "8" -> 8 [] c = "9" -> 9

RECURSIVE SkipWhite(_)
SkipWhite(s) ==
  IF s # <<>> /\ Head(s) = " " THEN SkipWhite(Tail(s)) ELSE s

\* the longest prefix of digits of s, as <<value, number of digits>>
RECURSIVE ParseDigits(_, _, _)
ParseDigits(s, acc, n) ==
  IF s # <<>> /\ Head(s) \in DigitChars
  THEN ParseDigits(Tail(s), 10 * acc + DigitVal(Head(s)), n + 1)
  ELSE <<acc, n>>

parseInt(str) ==
  LET s    == SkipWhite(str)
      neg  == s # <<>> /\ Head(s) = "-"
      body == IF s # <<>> /\ Head(s) \in {"-", "+"} THEN Tail(s) ELSE s
      r    == ParseDigits(body, 0, 0)
  IN  IF r[2] = 0 THEN NaN ELSE IF neg THEN 0 - r[1] ELSE r[1]

\* the values a change event may carry in e.target.value
LoadInputs ==
  { <<"1", "2", "0">>, <<"6", "0">>, <<"1", "5", "0">>, <<"-", "1">>,
    <<"a", "b", "c">> }

\* ------------------------------------------------------------------------
\* Status classification (inlined in simulateStep, src/App.tsx 62-68)
\* ------------------------------------------------------------------------
\* thresholds compared with >= instead of >
classifyInclusive(power, temp) ==
  IF (~isNaN(power) /\ power >= THRESHOLDS.power.critical * PowerScale)
     \/ (~isNaN(temp) /\ temp >= THRESHOLDS.temperature.critical * TempScale)
  THEN "CRITICAL"
  ELSE IF (~isNaN(power) /\ power >= THRESHOLDS.power.warning * PowerScale)
          \/ (~isNaN(temp) /\ temp >= THRESHOLDS.temperature.warning * TempScale)
  THEN "WARNING"
  ELSE "NOMINAL"

classify(power, temp) ==
  IF Gt(power, THRESHOLDS.power.critical * PowerScale)
     \/ Gt(temp, THRESHOLDS.temperature.critical * TempScale)
  THEN "CRITICAL"
  ELSE IF Gt(power, THRESHOLDS.power.warning * PowerScale)
          \/ Gt(temp, THRESHOLDS.temperature.warning * TempScale)
  THEN "WARNING"
  ELSE "NOMINAL"

\* ------------------------------------------------------------------------
\* simulateStep(currentData, targetLoad); noise is the single
\* Math.random() - 0.5 draw and t the value of Date.now().
\* loadFactor = targetLoad / 100: in units of 1/Scale it is targetLoad.
\* ------------------------------------------------------------------------
loadFactor(targetLoad) == targetLoad

\* NOMINAL_VOLTAGE - (loadFactor * 5) + (noise * 1.5)
voltageBase(targetLoad, noise) ==
  IF isNaN(targetLoad) THEN NaN
  ELSE NOMINAL_VOLTAGE * Scale - loadFactor(targetLoad) * 5
       + (noise * 15 * Scale) \div (10 * NoiseScale)

maxCurrent == 30

\* (maxCurrent * loadFactor) + (noise * 0.2)
currentBase(targetLoad, noise) ==
  IF isNaN(targetLoad) THEN NaN
  ELSE maxCurrent * loadFactor(targetLoad)
       + (noise * 2 * Scale) \div (10 * NoiseScale)

\* the noise term of the current left out of the product
powerNoNoise(targetLoad, noise) ==
  IF isNaN(targetLoad) THEN NaN
  ELSE voltageBase(targetLoad, noise) * (maxCurrent * loadFactor(targetLoad))

\* voltageBase * currentBase, from the unclamped factors
power(targetLoad, noise) ==
  IF isNaN(targetLoad) THEN NaN
  ELSE voltageBase(targetLoad, noise) * currentBase(targetLoad, noise)

\* 25 + (loadFactor * 60)
targetTemp(targetLoad) ==
  IF isNaN(targetLoad) THEN NaN
  ELSE 25 * TempScale + loadFactor(targetLoad) * 60 * (TempScale \div Scale)

\* approach rate 0.5 written for 0.05
tempChangeFast(currentData, targetLoad) ==
  IF isNaN(targetLoad) \/ isNaN(currentData.temperature) THEN NaN
  ELSE RoundDiv((targetTemp(targetLoad) - currentData.temperature) * 5, 10)

\* (targetTemp - currentData.temperature) * 0.05
tempChange(currentData, targetLoad) ==
  IF isNaN(targetLoad) \/ isNaN(currentData.temperature) THEN NaN
  ELSE RoundDiv((targetTemp(targetLoad) - currentData.temperature) * 5, 100)

\* currentData.temperature + tempChange + (noise * 0.1)
temp(currentData, targetLoad, noise) ==
  IF isNaN(tempChange(currentData, targetLoad)) THEN NaN
  ELSE currentData.temperature + tempChange(currentData, targetLoad)
       + noise * (TempScale \div (10 * NoiseScale))

\* 95 - (Math.abs(loadFactor - 0.5) * 10) + (noise * 0.5), capped at 100
eff(targetLoad, noise) ==
  LET e == IF isNaN(targetLoad) THEN NaN
           ELSE 95 * Scale
                - MathAbs(loadFactor(targetLoad) - Scale \div 2) * 10
                + (noise * 5 * Scale) \div (10 * NoiseScale)
  IN  IF Gt(e, 100 * Scale) THEN 100 * Scale ELSE e

simulateStep(currentData, targetLoad, noise, t) ==
  [ timestamp   |-> t,
    voltage     |-> MathMax(0, voltageBase(targetLoad, noise)),
    current     |-> MathMax(0, currentBase(targetLoad, noise)),
    power       |-> MathMax(0, power(targetLoad, noise)),
    temperature |-> temp(currentData, targetLoad, noise),
    frequency   |-> NOMINAL_FREQUENCY * Scale
                    + (noise * Scale) \div (10 * NoiseScale),
    efficiency  |-> eff(targetLoad, noise),
    status      |-> classify(power(targetLoad, noise),
                             temp(currentData, targetLoad, noise)) ]

MOCK_INITIAL_DATA ==
  [ voltage     |-> NOMINAL_VOLTAGE * Scale,
    current     |-> 0,
    power       |-> 0,
    temperature |-> 25 * TempScale,
    frequency   |-> NOMINAL_FREQUENCY * Scale,
    efficiency  |-> 100 * Scale,
    status      |-> "NOMINAL",
    timestamp   |-> 0 ]

\* ------------------------------------------------------------------------
\* geminiService.ts: the collaborator's reply and generateDiagnostics
\* ------------------------------------------------------------------------
ReportA ==
  [ status |-> "NOMINAL", analysis |-> "All metrics within limits.",
    recommendation |-> "No action required.",
    estimatedTimeUntilFailure |-> "N/A" ]
ReportB ==
  [ status |-> "CRITICAL", analysis |-> "Thermal overload.",
    recommendation |-> "Reduce load.",
    estimatedTimeUntilFailure |-> "2 hours" ]

FallbackReport ==
  [ status |-> "WARNING",
    analysis |-> "Automated diagnostics failed. Connection error.",
    recommendation |-> "Check network connection and retry.",
    estimatedTimeUntilFailure |-> "Unknown" ]

\* response.text values the collaborator may answer with
ResponseTexts == {"", "<html>", "null", "{}", "A", "B"}

\* what ai.models.generateContent settles with: a rejection (network
\* error) or a response carrying a text
Responses ==
  {[rejects |-> TRUE, text |-> ""]}
    \cup {[rejects |-> FALSE, text |-> t] : t \in ResponseTexts}

\* JSON.parse(jsonText): throws on text that is not JSON, otherwise the
\* parsed value (null, or an object given by its fields)
JSONParse(text) ==
  CASE text = "null" -> [throws |-> FALSE, isNull |-> TRUE, fields |-> <<>>]
    [] text = "{}"   -> [throws |-> FALSE, isNull |-> FALSE, fields |-> <<>>]
    [] text = "A"    -> [throws |-> FALSE, isNull |-> FALSE, fields |-> ReportA]
    [] text = "B"    -> [throws |-> FALSE, isNull |-> FALSE, fields |-> ReportB]
    [] OTHER         -> [throws |-> TRUE, isNull |-> FALSE, fields |-> <<>>]

\* data.f : undefined when the object has no such property
Prop(obj, f) == IF f \in DOMAIN obj THEN obj[f] ELSE "undefined"

Resolved(report) == [settled |-> "resolved", report |-> <<report>>]
Rejected == [settled |-> "rejected", report |-> <<>>]

\* the part of generateDiagnostics before the try block (lines 7-11)
ApiKeyCheckThrows(key) == ~key

\* the try/catch block (lines 30-81) applied to the collaborator's reply
TryGenerate(response) ==
  IF response.rejects THEN Resolved(FallbackReport)
  ELSE IF response.text = "" THEN Resolved(FallbackReport)
  ELSE LET data == JSONParse(response.text)
       IN  IF data.throws THEN Resolved(FallbackReport)
           ELSE IF data.isNull THEN Resolved(FallbackReport)
           ELSE Resolved(
                  [ status |-> Prop(data.fields, "status"),
                    analysis |-> Prop(data.fields, "analysis"),
                    recommendation |-> Prop(data.fields, "recommendation"),
                    estimatedTimeUntilFailure |->
                      Prop(data.fields, "estimatedTimeUntilFailure") ])

\* the promise generateDiagnostics returns, once settled
generateDiagnostics(key, response) ==
  IF ApiKeyCheckThrows(key) THEN Rejected ELSE TryGenerate(response)

\* ------------------------------------------------------------------------
\* State
\* ------------------------------------------------------------------------
VARIABLES
  systemState,    \* useState<SystemState>
  aiReport,       \* useState<DiagnosticsReport | null>: <<>> is null
  aiLoading,      \* useState(false)
  apiKey,         \* process.env.API_KEY is set
  inflight,       \* ids of the requests awaiting the collaborator
  nextReq,        \* number of requests issued
  unhandled,      \* handleDiagnostics promises that rejected
  now,            \* Date.now(), in ms
  interval,       \* the setInterval timer of the current effect
  effectPending,  \* the effect of the last commit has not run yet
  cIn, cOut,      \* classify harness: input and result
  hLoad, hForced, hPrev, hCur, hSteps   \* simulateStep harness

simVars == <<systemState, now, interval, effectPending>>
diagVars == <<aiReport, aiLoading, apiKey, inflight, nextReq, unhandled>>
classifyVars == <<cIn, cOut>>
stepVars == <<hLoad, hForced, hPrev, hCur, hSteps>>
vars == <<simVars, diagVars, classifyVars, stepVars>>

NoInterval == [armed |-> FALSE, due |-> 0]

InitApp ==
  /\ systemState =
       [ isConnected |-> TRUE,
         simulationActive |-> TRUE,
         targetLoad |-> 40,
         data |-> MOCK_INITIAL_DATA,
         history |-> [i \in 1..MAX_HISTORY_LENGTH |-> MOCK_INITIAL_DATA] ]
  /\ aiReport = <<>>
  /\ aiLoading = FALSE
  /\ apiKey \in BOOLEAN
  /\ inflight = {}
  /\ nextReq = 0
  /\ unhandled = 0
  /\ now = 0
  /\ interval = NoInterval
  /\ effectPending = TRUE

\* the harnesses are idle in the application's specification
IdleClassify == cIn = [power |-> 0, temperature |-> 0] /\ cOut = "none"
IdleStep ==
  /\ hLoad = 0 /\ hForced = FALSE /\ hSteps = 0
  /\ hPrev = MOCK_INITIAL_DATA /\ hCur = MOCK_INITIAL_DATA

Init == InitApp /\ IdleClassify /\ IdleStep

\* ------------------------------------------------------------------------
\* The simulation effect (useEffect, src/App.tsx 83-97)
\* ------------------------------------------------------------------------
Deps(st) == <<st.simulationActive, st.isConnected, st.targetLoad>>

\* cleanup of the previous effect (clearInterval) followed by the effect
\* body: a new interval when the simulation is active and connected
RunEffect(st, t) ==
  IF st.simulationActive /\ st.isConnected
  THEN [armed |-> TRUE, due |-> t + UPDATE_INTERVAL_MS]
  ELSE NoInterval

\* React runs the pending effect of the last commit before it renders again
FlushBeforeRender(iv) ==
  IF effectPending THEN RunEffect(systemState, now) ELSE iv

\* the pending effect runs on its own.  useEffect is a passive effect: React
\* runs it some time after the commit, so a timer task may come between the
\* commit of a state and the clearInterval of the effect it replaces
FlushEffects ==
  /\ effectPending
  /\ interval' = RunEffect(systemState, now)
  /\ effectPending' = FALSE
  /\ UNCHANGED <<systemState, now, diagVars, classifyVars, stepVars>>

\* setSystemState(updater): render and commit of the new state
Commit(newState, iv) ==
  /\ systemState' = newState
  /\ interval' = FlushBeforeRender(iv)
  /\ effectPending' = (Deps(newState) # Deps(systemState))

\* the history appended to without dropping its oldest entry
TickUpdaterNoEvict(prev, noise, t) ==
  LET newData == simulateStep(prev.data, prev.targetLoad, noise, t)
      newHistory == Append(prev.history, newData)
  IN  [prev EXCEPT !.data = newData, !.history = newHistory]

\* the new sample put at the oldest end of the history
TickUpdaterPrepend(prev, noise, t) ==
  LET newData == simulateStep(prev.data, prev.targetLoad, noise, t)
      newHistory ==
        <<newData>> \o SubSeq(prev.history, 1, Len(prev.history) - 1)
  IN  [prev EXCEPT !.data = newData, !.history = newHistory]

\* the step computed from the sample before the current one
TickUpdaterStale(prev, noise, t) ==
  LET newData == simulateStep(prev.history[Len(prev.history) - 1],
                              prev.targetLoad, noise, t)
      newHistory == Append(Tail(prev.history), newData)
  IN  [prev EXCEPT !.data = newData, !.history = newHistory]

\* the interval callback (src/App.tsx 87-93)
TickUpdater(prev, noise, t) ==
  LET newData == simulateStep(prev.data, prev.targetLoad, noise, t)
      newHistory == Append(Tail(prev.history), newData)
  IN  [prev EXCEPT !.data = newData, !.history = newHistory]

\* a timer that is held back while a diagnostics request is loading
TimerDueWhenIdle == ~aiLoading /\ interval.armed /\ now >= interval.due

\* setInterval: the callback is due once a period has passed
TimerDue == interval.armed /\ now >= interval.due

TimerFires ==
  /\ TimerDue
  /\ \E noise \in NoiseDraws :
       Commit(TickUpdater(systemState, noise, now),
              [interval EXCEPT !.due = @ + UPDATE_INTERVAL_MS])
  /\ UNCHANGED <<now, diagVars, classifyVars, stepVars>>

\* time passes; a due timer fires before time passes further
Elapse ==
  /\ now < MaxQuanta * TimeQuantum
  /\ ~TimerDue
  /\ now' = now + TimeQuantum
  /\ UNCHANGED <<systemState, interval, effectPending,
                 diagVars, classifyVars, stepVars>>

\* ------------------------------------------------------------------------
\* Handlers (src/App.tsx 100-118)
\* ------------------------------------------------------------------------
\* a toggle that can only stop
togglePowerStopOnly ==
  /\ Commit([systemState EXCEPT !.simulationActive = FALSE], interval)
  /\ UNCHANGED <<now, diagVars, classifyVars, stepVars>>

\* a toggle that resets the instant values when it stops the simulation
togglePowerReset ==
  /\ Commit([systemState EXCEPT
               !.simulationActive = ~@,
               !.data = IF systemState.simulationActive
                        THEN MOCK_INITIAL_DATA ELSE @], interval)
  /\ UNCHANGED <<now, diagVars, classifyVars, stepVars>>

\* a toggle that abandons the pending diagnostics request
togglePowerCancels ==
  /\ Commit([systemState EXCEPT !.simulationActive = ~@], interval)
  /\ inflight' = {}
  /\ aiLoading' = FALSE
  /\ UNCHANGED <<now, aiReport, apiKey, nextReq, unhandled,
                 classifyVars, stepVars>>

togglePower ==
  /\ Commit([systemState EXCEPT !.simulationActive = ~@], interval)
  /\ UNCHANGED <<now, diagVars, classifyVars, stepVars>>

handleLoadChange(value) ==
  /\ Commit([systemState EXCEPT !.targetLoad = parseInt(value)], interval)
  /\ UNCHANGED <<now, diagVars, classifyVars, stepVars>>

\* setAiLoading(true) left out
handleDiagnosticsNoLoading ==
  /\ nextReq < MaxRequests
  /\ aiLoading' = aiLoading
  /\ nextReq' = nextReq + 1
  /\ IF ApiKeyCheckThrows(apiKey)
     THEN unhandled' = unhandled + 1 /\ inflight' = inflight
     ELSE inflight' = inflight \cup {nextReq + 1} /\ unhandled' = unhandled
  /\ interval' = FlushBeforeRender(interval)
  /\ effectPending' = FALSE
  /\ UNCHANGED <<systemState, now, aiReport, apiKey, classifyVars, stepVars>>

\* handleDiagnostics up to its await: setAiLoading(true), then the call;
\* a missing API key makes the call reject, so the rest never runs
handleDiagnostics ==
  /\ nextReq < MaxRequests
  /\ aiLoading' = TRUE
  /\ nextReq' = nextReq + 1
  /\ IF ApiKeyCheckThrows(apiKey)
     THEN unhandled' = unhandled + 1 /\ inflight' = inflight
     ELSE inflight' = inflight \cup {nextReq + 1} /\ unhandled' = unhandled
  /\ interval' = FlushBeforeRender(interval)
  /\ effectPending' = FALSE
  /\ UNCHANGED <<systemState, now, aiReport, apiKey, classifyVars, stepVars>>

\* the DiagnosticsPanel offers the request only while nothing is loading
PanelOffersRun == ~aiLoading

RunDiagnostics == PanelOffersRun /\ handleDiagnostics

\* a report that is stored only while the slot is still empty
DiagnosticsSettlesKeepFirst(r, response) ==
  LET p == generateDiagnostics(apiKey, response)
  IN  /\ r \in inflight
      /\ inflight' = inflight \ {r}
      /\ IF p.settled = "resolved"
         THEN aiReport' = (IF aiReport = <<>> THEN p.report ELSE aiReport)
              /\ aiLoading' = FALSE
              /\ unhandled' = unhandled
         ELSE aiReport' = aiReport /\ aiLoading' = aiLoading
              /\ unhandled' = unhandled + 1
      /\ interval' = FlushBeforeRender(interval)
      /\ effectPending' = FALSE
      /\ UNCHANGED <<systemState, now, apiKey, nextReq, classifyVars, stepVars>>

\* the collaborator settles request r; handleDiagnostics resumes after
\* its await: setAiReport(report); setAiLoading(false)
DiagnosticsSettles(r, response) ==
  LET p == generateDiagnostics(apiKey, response)
  IN  /\ r \in inflight
      /\ inflight' = inflight \ {r}
      /\ IF p.settled = "resolved"
         THEN aiReport' = p.report /\ aiLoading' = FALSE
              /\ unhandled' = unhandled
         ELSE aiReport' = aiReport /\ aiLoading' = aiLoading
              /\ unhandled' = unhandled + 1
      /\ interval' = FlushBeforeRender(interval)
      /\ effectPending' = FALSE
      /\ UNCHANGED <<systemState, now, apiKey, nextReq, classifyVars, stepVars>>

Next ==
  \/ FlushEffects
  \/ TimerFires
  \/ Elapse
  \/ togglePower
  \/ \E value \in LoadInputs : handleLoadChange(value)
  \/ RunDiagnostics
  \/ \E r \in inflight, response \in Responses : DiagnosticsSettles(r, response)

Spec == Init /\ [][Next]_vars

\* ------------------------------------------------------------------------
\* classify applied to drawn inputs
\* ------------------------------------------------------------------------
ClassifyPowers ==
  { 0 - 50 * PowerScale, 1000 * PowerScale,
    THRESHOLDS.power.warning * PowerScale,
    THRESHOLDS.power.warning * PowerScale + 1,
    4000 * PowerScale,
    THRESHOLDS.power.critical * PowerScale,
    THRESHOLDS.power.critical * PowerScale + 1,
    7000 * PowerScale }
ClassifyTemps ==
  { 0 - 5 * TempScale, 10 * TempScale,
    THRESHOLDS.temperature.warning * TempScale,
    THRESHOLDS.temperature.warning * TempScale + 1,
    70 * TempScale,
    THRESHOLDS.temperature.critical * TempScale,
    THRESHOLDS.temperature.critical * TempScale + 1,
    90 * TempScale }

IdleApp == InitApp /\ apiKey = TRUE

InitClassify ==
  /\ IdleApp /\ IdleStep
  /\ cIn \in [power : ClassifyPowers, temperature : ClassifyTemps]
  /\ cOut = "none"

ApplyClassify ==
  /\ cOut = "none"
  /\ cOut' = classify(cIn.power, cIn.temperature)
  /\ UNCHANGED <<cIn, simVars, diagVars, stepVars>>

NextClassify == ApplyClassify

SpecClassify == InitClassify /\ [][NextClassify]_vars

\* ------------------------------------------------------------------------
\* simulateStep applied repeatedly to a drawn prior sample, with a fixed
\* targetLoad; hForced forces the noise to 0
\* ------------------------------------------------------------------------
StepLoads == {0, 40, 50, 120}
StepTemps == {10 * TempScale, 25 * TempScale, 97 * TempScale, 150 * TempScale}
StepNoise == NoiseDraws \cup {0}

InitStep ==
  /\ IdleApp /\ IdleClassify
  /\ hLoad \in StepLoads
  /\ hForced \in BOOLEAN
  /\ \E tp \in StepTemps :
       /\ hPrev = [MOCK_INITIAL_DATA EXCEPT !.temperature = tp]
       /\ hCur = hPrev
  /\ hSteps = 0

ApplyStep ==
  /\ hSteps < MaxSteps
  /\ \E noise \in (IF hForced THEN {0} ELSE StepNoise) :
       hCur' = simulateStep(hCur, hLoad, noise, now)
  /\ hPrev' = hCur
  /\ hSteps' = hSteps + 1
  /\ UNCHANGED <<hLoad, hForced, simVars, diagVars, classifyVars>>

NextStep == ApplyStep

SpecStep == InitStep /\ [][NextStep]_vars

\* ------------------------------------------------------------------------
\* Properties
\* ------------------------------------------------------------------------
Samples ==
  {systemState.data}
    \cup {systemState.history[i] : i \in 1..Len(systemState.history)}

\* C1: in every reachable state the history has exactly
\* MAX_HISTORY_LENGTH (60) entries and its last entry is the current
\* sample systemState.data.
C1_HistoryInvariant ==
  /\ Len(systemState.history) = MAX_HISTORY_LENGTH
  /\ systemState.history[Len(systemState.history)] = systemState.data

\* ticks, a stop, a target-load change and a delivered report have happened
C1_Witness ==
  /\ systemState.data.timestamp > 0
  /\ systemState.history[MAX_HISTORY_LENGTH - 1].timestamp > 0
  /\ ~systemState.simulationActive
  /\ systemState.targetLoad # 40
  /\ aiReport # <<>>

\* C2: while simulationActive is false no step changes the current sample
\* or the history, also not a timer callback that fires after the stop was
\* applied and before the effect cleanup has cleared the interval.
C2_StoppedTicksAreNoOps ==
  [][~systemState.simulationActive =>
       /\ systemState'.data = systemState.data
       /\ systemState'.history = systemState.history]_vars

\* the string is the decimal notation of an integer in 0..120
DenotesValidLoad(value) ==
  /\ value # <<>>
  /\ \A i \in 1..Len(value) : value[i] \in DigitChars
  /\ ParseDigits(value, 0, 0)[1] \in 0..120

\* C3: a target-load change whose value is not an integer in [0,120] is
\* rejected: targetLoad and the rest of the driver state stay unchanged.
C3_InvalidLoadRejected ==
  [][\A value \in LoadInputs :
       (handleLoadChange(value) /\ ~DenotesValidLoad(value))
         => systemState' = systemState]_vars

\* C4: for the current sample and every history entry, status is classify
\* applied to that sample's stored (floor-clamped) power and its temperature.
C4_StatusMatchesStoredFields ==
  \A smp \in Samples : smp.status = classify(smp.power, smp.temperature)

\* a tick has produced a CRITICAL sample after a WARNING or NOMINAL one
C4_Witness ==
  /\ systemState.data.timestamp > 0
  /\ systemState.data.status = "CRITICAL"
  /\ systemState.data.power > THRESHOLDS.power.critical * PowerScale

\* C5: status is CRITICAL when power > 6000 or temperature > 85, otherwise
\* WARNING when power > 3600 or temperature > 60, otherwise NOMINAL; the
\* comparisons are strict, so a value equal to a threshold does not trigger.
C5_ClassifyPrecedence ==
  cOut # "none" =>
    cOut = IF cIn.power > 6000 * PowerScale \/ cIn.temperature > 85 * TempScale
           THEN "CRITICAL"
           ELSE IF cIn.power > 3600 * PowerScale
                   \/ cIn.temperature > 60 * TempScale
           THEN "WARNING"
           ELSE "NOMINAL"

\* power and temperature exactly at the critical thresholds give WARNING
C5_Witness ==
  /\ cOut = "WARNING"
  /\ cIn.power = 6000 * PowerScale
  /\ cIn.temperature = 85 * TempScale

\* C6: for targetLoad in 0..120, any noise and any prior sample, the sample
\* returned by simulateStep has voltage >= 0, current >= 0, power >= 0 and
\* efficiency <= 100.
C6_StepRanges ==
  hSteps > 0 =>
    /\ hCur.voltage >= 0
    /\ hCur.current >= 0
    /\ hCur.power >= 0
    /\ hCur.efficiency <= 100 * Scale

\* load 0 with negative noise: current and power were clamped to 0
C6_Witness ==
  /\ hSteps > 0
  /\ hLoad = 0
  /\ hCur.frequency < NOMINAL_FREQUENCY * Scale
  /\ hCur.current = 0
  /\ hCur.power = 0

\* C7: a diagnostics request never rejects; on every failure of the
\* collaborator, a missing API key included, it returns the fallback
\* report, so once the requests issued without an API key have settled
\* the report slot holds the fallback report.
C7_AlwaysFallback ==
  /\ unhandled = 0
  /\ (~apiKey /\ nextReq > 0 /\ inflight = {})
       => aiReport = <<FallbackReport>>

TickProducesSample ==
  /\ TimerFires
  /\ systemState'.data # systemState.data
  /\ systemState'.history # systemState.history

\* C9: ticks are independent of diagnostics: whatever the state of the
\* diagnostics request (outstanding, failed, delivered), while RUNNING with
\* the effect run the interval is armed and due within one period, and a
\* due interval can always fire and produce a new sample.
C9_TicksIndependentOfDiagnostics ==
  /\ (systemState.simulationActive /\ systemState.isConnected
      /\ ~effectPending)
       => (interval.armed /\ interval.due <= now + UPDATE_INTERVAL_MS)
  /\ (interval.armed /\ now >= interval.due) => ENABLED TickProducesSample

\* a tick is due while a request is outstanding, after an earlier tick and
\* an earlier request that failed over to the fallback report
C9_Witness ==
  /\ inflight # {}
  /\ aiLoading
  /\ aiReport = <<FallbackReport>>
  /\ systemState.data.timestamp > 0
  /\ interval.armed /\ now >= interval.due

\* C10: with noise 0 and a fixed targetLoad a step moves temperature toward
\* 25 + targetLoad*0.6 without crossing it, the distance never increases,
\* and the step closes 5% of the gap (to the unit of the representation).
C10_TemperatureApproach ==
  (hForced /\ hSteps > 0) =>
    LET target == 25 * TempScale + hLoad * 6 * (TempScale \div 10)
        gap    == target - hPrev.temperature
        gap2   == target - hCur.temperature
    IN  /\ gap >= 0 => (gap2 >= 0 /\ gap2 <= gap)
        /\ gap <= 0 => (gap2 <= 0 /\ gap2 >= gap)
        /\ (gap - gap2) \in {gap \div 20, gap \div 20 + 1}

\* two noise-free steps have cooled the temperature toward a lower target
C10_Witness ==
  /\ hForced
  /\ hSteps >= 2
  /\ hCur.temperature < hPrev.temperature
  /\ hCur.temperature > 25 * TempScale + hLoad * 6 * (TempScale \div 10)

\* a toggle step that flips the run flag
ToggleFlips ==
  /\ togglePower
  /\ systemState'.simulationActive # systemState.simulationActive

\* C11: the driver starts RUNNING; the run flag changes only by a
\* togglePower step (start or stop), never by a tick, a target-load change
\* or a diagnostics step; and there is no terminal state: in every
\* reachable state the toggle is possible and flips the flag.
C11_RunFlagStateMachine ==
  /\ systemState.simulationActive
  /\ [][systemState'.simulationActive # systemState.simulationActive
          => togglePower]_vars
  /\ [](ENABLED ToggleFlips)

\* the driver is STOPPED after ticks, a load change and a request
C11_Witness ==
  /\ ~systemState.simulationActive
  /\ systemState.data.timestamp > 0
  /\ systemState.targetLoad = 60
  /\ nextReq > 0

\* C12: a tick is a FIFO shift: the new history is the old one without its
\* first entry followed by the new sample, every surviving entry moves one
\* position toward the oldest end, and the current sample is the new sample.
C12_TickIsFifoShift ==
  [][TimerFires =>
       /\ Len(systemState'.history) = Len(systemState.history)
       /\ \A i \in 1..(Len(systemState.history) - 1) :
            systemState'.history[i] = systemState.history[i + 1]
       /\ systemState'.history[Len(systemState'.history)] = systemState'.data
       /\ systemState'.data # systemState.data]_vars

\* two ticks have shifted the first new sample to the last but one place
C12_Witness ==
  /\ systemState.history[MAX_HISTORY_LENGTH - 1].timestamp > 0
  /\ systemState.history[MAX_HISTORY_LENGTH].timestamp
       > systemState.history[MAX_HISTORY_LENGTH - 1].timestamp
  /\ systemState.history[MAX_HISTORY_LENGTH - 2] = MOCK_INITIAL_DATA

\* C13: every tick computes its sample from the current sample (the one the
\* preceding tick produced) and from the targetLoad of the latest
\* target-load change, whatever handlers ran in between.
C13_TickUsesLatestState ==
  [][TimerFires =>
       \E noise \in NoiseDraws :
         systemState'.data =
           simulateStep(systemState.data, systemState.targetLoad, noise, now)]_vars

\* a second tick ran at the load set after the first tick
C13_Witness ==
  /\ systemState.history[MAX_HISTORY_LENGTH - 1].timestamp > 0
  /\ systemState.history[MAX_HISTORY_LENGTH - 1].status = "NOMINAL"
  /\ systemState.data.status = "CRITICAL"
  /\ systemState.targetLoad = 120

\* C14: only a tick writes the current sample and the history: start, stop,
\* a target-load change, issuing a diagnostics request and receiving its
\* report leave both unchanged.
C14_OnlyTickWritesSamples ==
  [][(\/ togglePower
      \/ \E value \in LoadInputs : handleLoadChange(value)
      \/ RunDiagnostics
      \/ \E r \in inflight, response \in Responses :
           DiagnosticsSettles(r, response))
       => /\ systemState'.data = systemState.data
          /\ systemState'.history = systemState.history]_vars

\* after a tick: stopped, load changed, one report received, one request out
C14_Witness ==
  /\ systemState.data.timestamp > 0
  /\ ~systemState.simulationActive
  /\ systemState.targetLoad = 150
  /\ aiReport = <<ReportA>>
  /\ inflight # {}

\* C15: for every sample produced by simulateStep the stored power is the
\* product of the stored (floor-clamped) voltage and current.
C15_PowerIsProductOfStored ==
  hSteps > 0 => hCur.power = hCur.voltage * hCur.current

\* load 0: a step with positive noise, then one where current was clamped
C15_Witness ==
  /\ hSteps >= 2
  /\ hLoad = 0
  /\ hPrev.current > 0
  /\ hPrev.power > 0
  /\ hCur.current = 0
  /\ hCur.voltage > 0

\* C16: while RUNNING a pending tick is not cancelled, restarted or
\* postponed: as long as the driver stays RUNNING, no step (a target-load
\* change and what it triggers included) moves an armed interval that is
\* not yet due.
C16_LoadChangeKeepsSchedule ==
  [][(/\ interval.armed /\ ~TimerDue
      /\ systemState.simulationActive
      /\ systemState'.simulationActive)
       => interval' = interval]_vars

\* C17: the slot is null until a request has completed, and when a request
\* completes with a report the slot holds exactly that report, whatever it
\* held before.
C17_ReportReplacesSlot ==
  /\ [](aiReport # <<>> => nextReq > Cardinality(inflight))
  /\ [][\A r \in inflight, response \in Responses :
          (/\ DiagnosticsSettles(r, response)
           /\ generateDiagnostics(apiKey, response).settled = "resolved")
            => aiReport' = generateDiagnostics(apiKey, response).report]_vars

\* the second request has completed with a report other than the fallback
C17_Witness ==
  /\ nextReq >= 2
  /\ inflight = {}
  /\ aiReport = <<ReportB>>
  /\ ~aiLoading

\* a pending request completes with the collaborator's report
DeliversReport ==
  \E r \in inflight :
    /\ DiagnosticsSettles(r, [rejects |-> FALSE, text |-> "A"])
    /\ aiReport' = <<ReportA>>
    /\ ~aiLoading'

\* C18: a start or stop leaves a pending diagnostics request, the loading
\* flag and the report slot untouched, and a pending request can complete
\* and store its report whether the driver is RUNNING or STOPPED.
C18_ToggleLeavesRequest ==
  /\ [][togglePower =>
          UNCHANGED <<aiReport, aiLoading, inflight, nextReq, unhandled>>]_vars
  /\ [](inflight # {} => ENABLED DeliversReport)

\* the driver was stopped while the request was pending: the effect of the
\* stop has not run yet, and issuing the request would have run it
C18_Witness ==
  /\ ~systemState.simulationActive
  /\ systemState.targetLoad = 40
  /\ effectPending
  /\ inflight # {}
  /\ aiLoading

\* C19: aiLoading is true whenever a request is outstanding and false once
\* every issued request has settled.  (setAiLoading(false) runs in the same
\* continuation that receives the settled request, so "eventually false" is
\* "false in every state without an outstanding request".)
C19_LoadingTracksRequest == aiLoading <=> (inflight # {})

====
